---- MODULE Spec2Model ----
(***************************************************************************)
(* Request-orchestration core of the Amadeus client library:               *)
(*   AmadeusAuth   (lib/auth.py)   - the token store                       *)
(*   ResponseCache (lib/cache.py)  - the TTL / LRU response cache          *)
(*   AmadeusClient._make_request (lib/client.py) - the request executor    *)
(* Several callers run _make_request on one shared AmadeusAuth and one     *)
(* shared ResponseCache; a caller blocks at the token endpoint and at the  *)
(* resource endpoint, and other callers run in between.                    *)
(***************************************************************************)
EXTENDS Integers, Sequences, FiniteSets, TLC

(***************************************************************************)
(* Bounds of the model.                                                    *)
(***************************************************************************)
NumCallers == 2
MaxCalls == 2
StartTime == 1
MaxTime == 3
MaxEntries == 2
DefaultTtl == 1
MaxParams == 2
MaxCacheOps == 3
MaxObjects == 2

(***************************************************************************)
(* Program constants.                                                      *)
(***************************************************************************)
Skew == 60
DefaultExpiresIn == 1799
StatusUnauthorized == 401
StatusErrorFloor == 400

Callers == 1..NumCallers

(***************************************************************************)
(* Python values.                                                          *)
(***************************************************************************)
None == [kind |-> "None"]
PyInt(n) == [kind |-> "int", n |-> n]
PyStr(s) == [kind |-> "str", s |-> s]
PyDict(items) == [kind |-> "dict", items |-> items]
Obj(d, errs) == [kind |-> "object", data |-> d, errors |-> errs]

\* What response.json() can parse a body to: null parses to None.
JsonValues == {None, Obj(1, <<>>), Obj(2, <<"E1">>)}
Undecodable == [kind |-> "undecodable"]
Bodies == JsonValues \cup {Undecodable}

\* Outcomes of a call: a returned value or a raised exception.
Success(v) == [kind |-> "Success", value |-> v]
APIError(status, errs) == [kind |-> "APIError", status_code |-> status, errors |-> errs]
AuthError == [kind |-> "AuthError"]
KeyError == [kind |-> "KeyError"]
Pending == [kind |-> "Pending"]

(***************************************************************************)
(* ResponseCache.make_key: json.dumps(..., sort_keys=True) of the endpoint *)
(* and `params or {}`, then a digest.  A parameter map is the sequence of  *)
(* its <<name, value>> pairs in insertion order, a name being the rank of  *)
(* the key string in string order; the digest is modelled as injective on  *)
(* the canonical text.                                                     *)
(***************************************************************************)
ParamsOrEmpty(params) == IF params = None THEN <<>> ELSE params.items

RECURSIVE InsertSorted(_, _)
InsertSorted(pair, sorted) ==
    IF sorted = <<>> THEN <<pair>>
    ELSE IF pair[1] <= Head(sorted)[1] THEN <<pair>> \o sorted
    ELSE <<Head(sorted)>> \o InsertSorted(pair, Tail(sorted))

\* Mutant: json.dumps without sort_keys, the pairs stay in insertion order.
SortKeys_InsertionOrder(pairs) == pairs

RECURSIVE SortKeys(_)
SortKeys(pairs) ==
    IF pairs = <<>> THEN <<>>
    ELSE InsertSorted(Head(pairs), SortKeys(Tail(pairs)))

make_key(endpoint, params) ==
    [endpoint |-> endpoint, params |-> SortKeys(ParamsOrEmpty(params))]

(***************************************************************************)
(* ResponseCache._cache: a dict, modelled as the sequence of its items in  *)
(* insertion order, each [key, value, expiry, access].                     *)
(***************************************************************************)
Index(c, key) ==
    IF \E i \in 1..Len(c) : c[i].key = key
    THEN CHOOSE i \in 1..Len(c) : c[i].key = key
    ELSE 0

Contains(c, key) == Index(c, key) # 0

Remove(c, i) == SubSeq(c, 1, i - 1) \o SubSeq(c, i + 1, Len(c))

\* Mutant: no entry is ever taken for expired.
IsExpired_Never(t, expiry) == FALSE

\* The expiry test of ResponseCache.get.
IsExpired(t, expiry) == t > expiry

\* ResponseCache.get: the value returned and the dict afterwards.
CacheGet(c, key, t) ==
    LET i == Index(c, key) IN
    IF i = 0 THEN [ret |-> None, cache |-> c]
    ELSE IF IsExpired(t, c[i].expiry)
         THEN [ret |-> None, cache |-> Remove(c, i)]
         ELSE [ret |-> c[i].value,
               cache |-> [c EXCEPT ![i] = [key |-> key, value |-> c[i].value,
                                           expiry |-> c[i].expiry, access |-> t]]]

\* Mutant: the entry accessed last is taken.
OldestIndex_Newest(c) ==
    CHOOSE i \in 1..Len(c) : \A j \in 1..Len(c) : c[i].access >= c[j].access

\* min(self._cache.keys(), key=access): the first item with the least access time.
OldestIndex(c) ==
    CHOOSE i \in 1..Len(c) :
        /\ \A j \in 1..Len(c) : c[i].access <= c[j].access
        /\ \A j \in 1..(i - 1) : c[j].access > c[i].access

EvictOldest(c) == IF c = <<>> THEN c ELSE Remove(c, OldestIndex(c))

\* Mutant: the assignment is left out.
Assign_Dropped(c, entry) == c

\* dict item assignment: an existing key keeps its place, a new one goes last.
Assign(c, entry) ==
    LET i == Index(c, entry.key) IN
    IF i = 0 THEN Append(c, entry) ELSE [c EXCEPT ![i] = entry]

\* Mutant: a full map is not evicted from.
CacheSet_NoEviction(c, key, value, ttl, t, max_entries, default_ttl) ==
    LET ttl1 == IF ttl # None THEN ttl.n ELSE default_ttl
    IN Assign(c, [key |-> key, value |-> value, expiry |-> t + ttl1, access |-> t])

\* ResponseCache.set with ttl = None standing for the default.
CacheSet(c, key, value, ttl, t, max_entries, default_ttl) ==
    LET c1 == IF Len(c) >= max_entries THEN EvictOldest(c) ELSE c
        ttl1 == IF ttl # None THEN ttl.n ELSE default_ttl
    IN Assign(c1, [key |-> key, value |-> value, expiry |-> t + ttl1, access |-> t])

(***************************************************************************)
(* Inputs: the arguments of a call and the replies of the two endpoints.   *)
(***************************************************************************)
Methods == {"GET", "POST"}
Endpoints == {"/a"}
ParamChoices == {None, PyDict(<< <<1, 7>>, <<2, 8>> >>), PyDict(<< <<2, 8>>, <<1, 7>> >>)}
Requests == [method : Methods, endpoint : Endpoints, params : ParamChoices,
             use_cache : BOOLEAN]
NoRequest == [method |-> "", endpoint |-> "", params |-> None, use_cache |-> FALSE]

\* Replies of the resource endpoint: requests.RequestException, or a status and a body.
Exc == [kind |-> "exc"]
Http(status, body) == [kind |-> "http", status |-> status, body |-> body]
Statuses == {200, 401, 500}
Responses ==
    {Exc} \cup {Http(s, b) : s \in Statuses \ {StatusUnauthorized}, b \in Bodies}
          \cup {Http(StatusUnauthorized, b) : b \in {Obj(2, <<"E1">>), Undecodable}}

\* Replies of the token endpoint.
Tokens == {PyStr("t1"), PyStr("t2")}
ExpiresIn == {None, PyInt(30), PyInt(62)}
TokenOk(t, e) == [kind |-> "token_ok", access_token |-> t, expires_in |-> e]
TokenFailures == {"token_exc", "token_denied", "token_undecodable", "token_no_access_token"}
TokenReplies ==
    {[kind |-> k] : k \in TokenFailures}
    \cup {[kind |-> "token_bad_expires_in", access_token |-> PyStr("t2")]}
    \cup {TokenOk(t, e) : t \in Tokens, e \in ExpiresIn}

VARIABLES
    now,            \* time.time()
    cache_ttl,      \* AmadeusClient(cache_ttl=...)
    token,          \* AmadeusAuth._token
    token_expiry,   \* AmadeusAuth._token_expiry
    cache,          \* ResponseCache._cache
    pc,             \* per caller: where it is in _make_request
    req,            \* per caller: the arguments of its call
    loc,            \* per caller: attempt, bearer token held, replies received,
                    \*             the entry the cache check found
    result,         \* per caller: what its call returned or raised
    hist,           \* per caller: what its call has done so far, in order
    prev,           \* per caller: summary of its previous call
    op,             \* the last operation called directly on the cache
    ncalls          \* calls started

vars == <<now, cache_ttl, token, token_expiry, cache, pc, req, loc, result, hist,
          prev, op, ncalls>>

NotSeen == [present |-> FALSE]
NoLocals == [attempt |-> 1, bearer |-> None, resps |-> <<>>, seen |-> NotSeen]
NoPrev == [kind |-> "none"]
NoOp == [name |-> "none"]

\* Mutant: a ResponseCache is built whatever cache_ttl is.
CacheOn_Always == TRUE

\* AmadeusClient.__init__: self.cache is None when cache_ttl is 0.
CacheOn == cache_ttl > 0

\* Mutant: the method is not looked at.
UsesCache_AnyMethod(method, use_cache) == use_cache /\ CacheOn

\* The condition of client.py lines 95 and 158.
UsesCache(method, use_cache) == method = "GET" /\ use_cache /\ CacheOn

\* Mutant: the stored token is never taken for valid.
IsTokenValid_Never(tok, expiry, t) == FALSE

\* AmadeusAuth._is_token_valid
IsTokenValid(tok, expiry, t) == IF tok = None THEN FALSE ELSE t < expiry - Skew

\* Mutant: a transport failure of the token request surfaces as the client's
\* own transport error instead of AuthError.
RefreshError_Coerced(kind) ==
    CASE kind = "token_exc" -> {APIError(None, <<>>)}
      [] kind = "token_denied" -> {AuthError}
      [] kind = "token_undecodable" -> {AuthError, [kind |-> "ValueError"]}
      [] kind = "token_no_access_token" -> {KeyError}
      [] kind = "token_bad_expires_in" -> {[kind |-> "TypeError"]}

\* What _refresh_token raises for a reply that is not a usable token.
RefreshError(kind) ==
    CASE kind \in {"token_exc", "token_denied"} -> {AuthError}
      \* response.json() raises; whether that is a RequestException depends on
      \* the version of requests.
      [] kind = "token_undecodable" -> {AuthError, [kind |-> "ValueError"]}
      [] kind = "token_no_access_token" -> {KeyError}
      [] kind = "token_bad_expires_in" -> {[kind |-> "TypeError"]}

\* data.get('expires_in', 1799)
ExpiresInOf(reply) ==
    IF reply.expires_in = None THEN DefaultExpiresIn ELSE reply.expires_in.n

\* Mutant: the 401 check is applied to the retry's reply as well.
ShouldRetry_EveryTime(resp, attempt) == resp.status = StatusUnauthorized

\* Mutant: every error status is retried once.
ShouldRetry_AnyError(resp, attempt) == resp.status >= StatusErrorFloor /\ attempt = 1

\* The 401 branch of client.py line 119; it is written once, before the retry.
ShouldRetry(resp, attempt) == resp.status = StatusUnauthorized /\ attempt = 1

\* Mutant: the retry's reply is not bound to `response`.
FinalResponse_NotRebound(resps) == resps[1]

\* `response` as lines 138-153 read it: the retry rebinds it.
FinalResponse(resps) == resps[Len(resps)]

\* The errors an APIError takes from an error body (client.py lines 140-148).
ErrorsOf(body) == IF body.kind = "object" THEN body.errors ELSE <<>>

\* requests.RequestException in either requests.request (lines 115, 135).
TransportError == APIError(None, <<>>)

\* What lines 138-162 make of the response.
Outcome(resp) ==
    IF resp.status >= StatusErrorFloor
    THEN APIError(PyInt(resp.status), ErrorsOf(resp.body))
    ELSE IF resp.body = Undecodable THEN APIError(None, <<>>)
    ELSE Success(resp.body)

\* Mutant: the token is dropped but the expiry is left as it was set.
Invalidated_ExpiryKept == [token |-> None, token_expiry |-> DefaultExpiresIn]

\* AmadeusAuth.invalidate
Invalidated == [token |-> None, token_expiry |-> 0]

\* Ghost: what the cache check of a call found under its key.
Seen(c, key, t) ==
    LET i == Index(c, key) IN
    IF i = 0 THEN NotSeen
    ELSE [present |-> TRUE, value |-> c[i].value, expiry |-> c[i].expiry, at |-> t]

\* Ghost: a finished call, as the caller's next call remembers it.
Summary(c) ==
    IF pc[c] = "done" /\ result[c].kind = "Success"
       /\ UsesCache(req[c].method, req[c].use_cache)
    THEN [kind |-> "cached_get", key |-> make_key(req[c].endpoint, req[c].params),
          value |-> result[c].value, transports |-> Len(loc[c].resps)]
    ELSE NoPrev

Init ==
    /\ now = StartTime
    /\ cache_ttl \in {0, DefaultTtl}
    /\ token = None
    /\ token_expiry = 0
    /\ cache = <<>>
    /\ pc = [c \in Callers |-> "idle"]
    /\ req = [c \in Callers |-> NoRequest]
    /\ loc = [c \in Callers |-> NoLocals]
    /\ result = [c \in Callers |-> Pending]
    /\ hist = [c \in Callers |-> <<>>]
    /\ prev = [c \in Callers |-> NoPrev]
    /\ op = NoOp
    /\ ncalls = 0

Finish(c, outcome, events) ==
    /\ pc' = [pc EXCEPT ![c] = "done"]
    /\ result' = [result EXCEPT ![c] = outcome]
    /\ hist' = [hist EXCEPT ![c] = hist[c] \o events]

Goto(c, label, events) ==
    /\ pc' = [pc EXCEPT ![c] = label]
    /\ hist' = [hist EXCEPT ![c] = hist[c] \o events]
    /\ UNCHANGED result

\* _make_request is entered: the cache check of client.py lines 94-99.
Call(c, requests) ==
    /\ pc[c] \in {"idle", "done"}
    /\ ncalls < MaxCalls
    /\ ncalls' = ncalls + 1
    /\ prev' = [prev EXCEPT ![c] = Summary(c)]
    /\ \E r \in requests :
        LET key == make_key(r.endpoint, r.params) IN
        /\ req' = [req EXCEPT ![c] = r]
        /\ IF UsesCache(r.method, r.use_cache)
           THEN LET got == CacheGet(cache, key, now) IN
                /\ cache' = got.cache
                /\ loc' = [loc EXCEPT ![c] = [NoLocals EXCEPT !.seen = Seen(cache, key, now)]]
                /\ IF got.ret # None
                   THEN /\ pc' = [pc EXCEPT ![c] = "done"]
                        /\ result' = [result EXCEPT ![c] = Success(got.ret)]
                        /\ hist' = [hist EXCEPT ![c] = <<"cache_hit">>]
                   ELSE /\ pc' = [pc EXCEPT ![c] = "get_token"]
                        /\ result' = [result EXCEPT ![c] = Pending]
                        /\ hist' = [hist EXCEPT ![c] = <<"cache_miss">>]
           ELSE /\ cache' = cache
                /\ loc' = [loc EXCEPT ![c] = NoLocals]
                /\ pc' = [pc EXCEPT ![c] = "get_token"]
                /\ result' = [result EXCEPT ![c] = Pending]
                /\ hist' = [hist EXCEPT ![c] = <<>>]
    /\ UNCHANGED <<now, cache_ttl, token, token_expiry, op>>

\* get_headers -> get_token: the stored token if valid, else the token request is sent.
GetToken(c) ==
    /\ pc[c] = "get_token"
    /\ IF IsTokenValid(token, token_expiry, now)
       THEN /\ loc' = [loc EXCEPT ![c].bearer = token]
            /\ Goto(c, "request", <<"token_valid">>)
       ELSE /\ loc' = loc
            /\ Goto(c, "refresh", <<"refresh_sent">>)
    /\ UNCHANGED <<now, cache_ttl, token, token_expiry, cache, req, prev, op, ncalls>>

\* _refresh_token once the token endpoint has answered.
RefreshReply(c, replies) ==
    /\ pc[c] = "refresh"
    /\ \E reply \in replies :
        IF reply.kind = "token_ok"
        THEN /\ token' = reply.access_token
             /\ token_expiry' = now + ExpiresInOf(reply)
             /\ loc' = [loc EXCEPT ![c].bearer = reply.access_token]
             /\ Goto(c, "request", <<"token_ok", "token_written", "expiry_written">>)
        ELSE IF reply.kind = "token_bad_expires_in"
        THEN \* self._token is assigned, then the sum on line 113 raises.
             /\ token' = reply.access_token
             /\ \E e \in RefreshError(reply.kind) :
                    Finish(c, e, <<reply.kind, "token_written">>)
             /\ UNCHANGED <<token_expiry, loc>>
        ELSE /\ \E e \in RefreshError(reply.kind) : Finish(c, e, <<reply.kind>>)
             /\ UNCHANGED <<token, token_expiry, loc>>
    /\ UNCHANGED <<now, cache_ttl, cache, req, prev, op, ncalls>>

\* One requests.request of _make_request and the handling of its reply
\* (client.py lines 102-162).
Transport(c, responses) ==
    /\ pc[c] = "request"
    /\ \E resp \in responses :
        LET resps == Append(loc[c].resps, resp) IN
        IF resp.kind = "exc"
        THEN /\ loc' = [loc EXCEPT ![c].resps = resps]
             /\ Finish(c, TransportError, <<"transport">>)
             /\ UNCHANGED <<token, token_expiry, cache>>
        ELSE IF ShouldRetry(resp, loc[c].attempt)
        THEN /\ loc' = [loc EXCEPT ![c].resps = resps, ![c].attempt = @ + 1]
             /\ token' = Invalidated.token
             /\ token_expiry' = Invalidated.token_expiry
             /\ Goto(c, "get_token", <<"transport", "invalidate">>)
             /\ UNCHANGED cache
        ELSE LET out == Outcome(FinalResponse(resps)) IN
             /\ loc' = [loc EXCEPT ![c].resps = resps]
             /\ IF out.kind = "Success" /\ UsesCache(req[c].method, req[c].use_cache)
                THEN /\ cache' = CacheSet(cache, make_key(req[c].endpoint, req[c].params),
                                          out.value, None, now, MaxEntries, cache_ttl)
                     /\ Finish(c, out, <<"transport", "cache_set">>)
                ELSE /\ cache' = cache
                     /\ Finish(c, out, <<"transport">>)
             /\ UNCHANGED <<token, token_expiry>>
    /\ UNCHANGED <<now, cache_ttl, req, prev, op, ncalls>>

\* ResponseCache.clear
Clear ==
    /\ CacheOn
    /\ cache' = <<>>
    /\ UNCHANGED <<now, cache_ttl, token, token_expiry, pc, req, loc, result, hist, prev,
                   op, ncalls>>

\* AmadeusAuth.invalidate called by the user of the client, between calls.
Invalidate ==
    /\ \A c \in Callers : pc[c] \in {"idle", "done"}
    /\ token' = Invalidated.token
    /\ token_expiry' = Invalidated.token_expiry
    /\ op' = [name |-> "invalidate", absent |-> token = None]
    /\ UNCHANGED <<now, cache_ttl, cache, pc, req, loc, result, hist, prev, ncalls>>

\* Time passes.
Tick ==
    /\ now < MaxTime
    /\ now' = now + 1
    /\ UNCHANGED <<cache_ttl, token, token_expiry, cache, pc, req, loc, result, hist, prev,
                   op, ncalls>>

(***************************************************************************)
(* The documented scheduling: one caller, every operation run to its end   *)
(* before the next call.                                                   *)
(***************************************************************************)
Next ==
    \/ Call(1, Requests)
    \/ GetToken(1)
    \/ RefreshReply(1, TokenReplies)
    \/ Transport(1, Responses)
    \/ Clear
    \/ Tick

Spec == Init /\ [][Next]_vars

\* The same, with the user also calling invalidate() on the token store.
TokenNext == Next \/ Invalidate

TokenSpec == Init /\ [][TokenNext]_vars

(***************************************************************************)
(* Several callers on the shared token store and cache, interleaved at the *)
(* points where a caller blocks on the network.                            *)
(***************************************************************************)
ConcRequests ==
    {[method |-> "GET", endpoint |-> "/a", params |-> None, use_cache |-> TRUE],
     [method |-> "POST", endpoint |-> "/a", params |-> None, use_cache |-> FALSE]}
ConcResponses == {Exc, Http(200, Obj(1, <<>>)), Http(401, Obj(2, <<"E1">>)),
                  Http(500, Obj(2, <<"E1">>))}
ConcTokenReplies == {[kind |-> "token_denied"], TokenOk(PyStr("t1"), None),
                     TokenOk(PyStr("t2"), PyInt(62))}

ConcNext ==
    \/ \E c \in Callers : Call(c, ConcRequests)
    \/ \E c \in Callers : GetToken(c)
    \/ \E c \in Callers : RefreshReply(c, ConcTokenReplies)
    \/ \E c \in Callers : Transport(c, ConcResponses)
    \/ Clear
    \/ Tick

ConcSpec == Init /\ [][ConcNext]_vars

(***************************************************************************)
(* The cache used on its own: get, set and clear called directly.          *)
(***************************************************************************)
CacheKeys == {make_key("/a", None), make_key("/a", PyDict(<< <<1, 7>> >>)),
              make_key("/b", None)}
CacheValues == {None, Obj(1, <<>>)}
Ttls == {None, PyInt(0)}

\* Ghost: the keys of the map in the order the caller last accessed them,
\* oldest first, each with the operation that accessed it last.
Lru(c) ==
    LET InMap(e) == Contains(c, e.key) IN
    IF op.name = "none" THEN <<>> ELSE SelectSeq(op.lru, InMap)

Touch(l, key, by) ==
    LET Other(e) == e.key # key IN
    SelectSeq(l, Other) \o <<[key |-> key, by |-> by]>>

Restrict(l, c) ==
    LET InMap(e) == Contains(c, e.key) IN SelectSeq(l, InMap)

\* Ghost: for each key of the map, the instant and ttl of the set that stored it.
Born(c) == IF op.name = "none" THEN {} ELSE {b \in op.born : Contains(c, b.key)}

\* `ttl if ttl is not None else self.default_ttl`
TtlOf(ttl, default_ttl) == IF ttl # None THEN ttl.n ELSE default_ttl

\* ResponseCache.get
DirectGet(key) ==
    /\ CacheOn
    /\ LET got == CacheGet(cache, key, now) IN
        /\ cache' = got.cache
        /\ op' = [name |-> "get", key |-> key, ret |-> got.ret, before |-> cache,
                  after |-> got.cache, at |-> now, lru_before |-> Lru(cache),
                  lru |-> IF Contains(got.cache, key) THEN Touch(Lru(cache), key, "get")
                          ELSE Restrict(Lru(cache), got.cache),
                  born |-> Born(got.cache)]
    /\ UNCHANGED <<now, cache_ttl, token, token_expiry, pc, req, loc, result, hist, prev,
                   ncalls>>

\* ResponseCache.set
DirectSet(key, value, ttl) ==
    /\ CacheOn
    /\ LET after == CacheSet(cache, key, value, ttl, now, MaxEntries, cache_ttl) IN
        /\ cache' = after
        /\ op' = [name |-> "set", key |-> key, ret |-> None, before |-> cache,
                  after |-> after, at |-> now, lru_before |-> Lru(cache),
                  lru |-> Touch(Restrict(Lru(cache), after), key, "set"),
                  born |-> {b \in Born(after) : b.key # key}
                           \cup {[key |-> key, at |-> now, ttl |-> TtlOf(ttl, cache_ttl)]}]
    /\ UNCHANGED <<now, cache_ttl, token, token_expiry, pc, req, loc, result, hist, prev,
                   ncalls>>

\* Mutant: an entry at its expiry instant is counted valid.
IsValidForStats_Inclusive(t, expiry) == t <= expiry

\* The counts ResponseCache.stats reports.
IsValidForStats(t, expiry) == t < expiry

RECURSIVE ValidEntries(_, _)
ValidEntries(c, t) ==
    IF c = <<>> THEN 0
    ELSE (IF IsValidForStats(t, Head(c).expiry) THEN 1 ELSE 0) + ValidEntries(Tail(c), t)

StatsOf(c, t, max_entries) ==
    [total_entries |-> Len(c), valid_entries |-> ValidEntries(c, t),
     expired_entries |-> Len(c) - ValidEntries(c, t), max_entries |-> max_entries]

\* ResponseCache.stats
DirectStats ==
    /\ CacheOn
    /\ op' = [name |-> "stats", key |-> None, ret |-> StatsOf(cache, now, MaxEntries),
              before |-> cache, after |-> cache, at |-> now, lru_before |-> Lru(cache),
              lru |-> Lru(cache), born |-> Born(cache)]
    /\ UNCHANGED <<now, cache_ttl, token, token_expiry, cache, pc, req, loc, result, hist,
                   prev, ncalls>>

CacheInit == Init /\ cache_ttl = DefaultTtl

CacheNext ==
    \/ \E key \in CacheKeys : DirectGet(key)
    \/ \E key \in CacheKeys, value \in CacheValues, ttl \in Ttls : DirectSet(key, value, ttl)
    \/ DirectStats
    \/ Clear
    \/ Tick

CacheSpec == CacheInit /\ [][CacheNext]_vars

(***************************************************************************)
(* Several callers on one ResponseCache, get and set called directly and   *)
(* interleaved statement by statement: the class takes no lock, so another *)
(* caller can run between any two statements of get, set and               *)
(* _evict_oldest.  min() over the keys is taken as one step.               *)
(***************************************************************************)
CacheCall(name, key, value, ttl) == [name |-> name, key |-> key, value |-> value, ttl |-> ttl]

Start(c, call, label, locals) ==
    /\ pc[c] \in {"idle", "done"}
    /\ ncalls < MaxCacheOps
    /\ ncalls' = ncalls + 1
    /\ req' = [req EXCEPT ![c] = call]
    /\ loc' = [loc EXCEPT ![c] = locals]
    /\ pc' = [pc EXCEPT ![c] = label]
    /\ result' = [result EXCEPT ![c] = Pending]

\* get, line 61: `if key not in self._cache: return None`
GetTest(c, key) ==
    /\ CacheOn
    /\ IF Contains(cache, key)
       THEN Start(c, CacheCall("get", key, None, None), "get_read", NoLocals)
       ELSE /\ Start(c, CacheCall("get", key, None, None), "done", NoLocals)
            /\ result' = [result EXCEPT ![c] = Success(None)]
    /\ UNCHANGED <<now, cache_ttl, token, token_expiry, cache, hist, prev, op>>

\* get, line 64: `value, expiry, _ = self._cache[key]`
GetRead(c) ==
    /\ pc[c] = "get_read"
    /\ LET i == Index(cache, req[c].key) IN
        IF i = 0
        THEN /\ pc' = [pc EXCEPT ![c] = "done"]
             /\ result' = [result EXCEPT ![c] = KeyError]
             /\ loc' = loc
        ELSE /\ pc' = [pc EXCEPT ![c] = "get_finish"]
             /\ loc' = [loc EXCEPT ![c] = [value |-> cache[i].value, expiry |-> cache[i].expiry]]
             /\ result' = result
    /\ UNCHANGED <<now, cache_ttl, token, token_expiry, cache, req, hist, prev, op, ncalls>>

\* get, lines 66-72: the expiry test, then `del self._cache[key]` or the
\* write-back of (value, expiry, time.time()) and the return.
GetFinish(c) ==
    /\ pc[c] = "get_finish"
    /\ pc' = [pc EXCEPT ![c] = "done"]
    /\ LET key == req[c].key
           i == Index(cache, key)
       IN IF IsExpired(now, loc[c].expiry)
          THEN IF i = 0
               THEN cache' = cache /\ result' = [result EXCEPT ![c] = KeyError]
               ELSE cache' = Remove(cache, i) /\ result' = [result EXCEPT ![c] = Success(None)]
          ELSE /\ cache' = Assign(cache, [key |-> key, value |-> loc[c].value,
                                          expiry |-> loc[c].expiry, access |-> now])
               /\ result' = [result EXCEPT ![c] = Success(loc[c].value)]
    /\ UNCHANGED <<now, cache_ttl, token, token_expiry, req, loc, hist, prev, op, ncalls>>

\* set, line 82: `if len(self._cache) >= self.max_entries:`
SetTest(c, key, value, ttl) ==
    /\ CacheOn
    /\ Start(c, CacheCall("set", key, value, ttl),
             IF Len(cache) >= MaxEntries THEN "set_select" ELSE "set_assign",
             [full |-> Len(cache) >= MaxEntries, new |-> ~Contains(cache, key)])
    /\ UNCHANGED <<now, cache_ttl, token, token_expiry, cache, hist, prev, op>>

\* _evict_oldest, lines 93-97: `if not self._cache: return`, then min().
SetSelectOldest(c) ==
    /\ pc[c] = "set_select"
    /\ IF cache = <<>>
       THEN /\ pc' = [pc EXCEPT ![c] = "set_assign"]
            /\ loc' = loc
       ELSE /\ pc' = [pc EXCEPT ![c] = "set_del"]
            /\ loc' = [loc EXCEPT ![c] = [full |-> loc[c].full, new |-> loc[c].new,
                                          oldest_key |-> cache[OldestIndex(cache)].key]]
    /\ UNCHANGED <<now, cache_ttl, token, token_expiry, cache, req, result, hist, prev, op,
                   ncalls>>

\* _evict_oldest, line 98: `del self._cache[oldest_key]`
SetDelOldest(c) ==
    /\ pc[c] = "set_del"
    /\ LET i == Index(cache, loc[c].oldest_key) IN
        IF i = 0
        THEN /\ pc' = [pc EXCEPT ![c] = "done"]
             /\ result' = [result EXCEPT ![c] = KeyError]
             /\ cache' = cache
        ELSE /\ pc' = [pc EXCEPT ![c] = "set_assign"]
             /\ result' = result
             /\ cache' = Remove(cache, i)
    /\ UNCHANGED <<now, cache_ttl, token, token_expiry, req, loc, hist, prev, op, ncalls>>

\* set, lines 85-89
SetAssign(c) ==
    /\ pc[c] = "set_assign"
    /\ pc' = [pc EXCEPT ![c] = "done"]
    /\ result' = [result EXCEPT ![c] = Success(None)]
    /\ LET ttl1 == IF req[c].ttl # None THEN req[c].ttl.n ELSE cache_ttl IN
        cache' = Assign(cache, [key |-> req[c].key, value |-> req[c].value,
                                expiry |-> now + ttl1, access |-> now])
    /\ UNCHANGED <<now, cache_ttl, token, token_expiry, req, loc, hist, prev, op, ncalls>>

SharedCacheNext ==
    \/ \E c \in Callers, key \in CacheKeys : GetTest(c, key)
    \/ \E c \in Callers : GetRead(c)
    \/ \E c \in Callers : GetFinish(c)
    \/ \E c \in Callers, key \in CacheKeys, value \in CacheValues, ttl \in Ttls :
            SetTest(c, key, value, ttl)
    \/ \E c \in Callers : SetSelectOldest(c)
    \/ \E c \in Callers : SetDelOldest(c)
    \/ \E c \in Callers : SetAssign(c)
    \/ Tick

SharedCacheSpec == CacheInit /\ [][SharedCacheNext]_vars

(***************************************************************************)
(* Construction: AmadeusClient.__init__ builds the AmadeusAuth from its    *)
(* arguments and the process environment.                                  *)
(***************************************************************************)
TOKEN_URLS == {PyStr("test"), PyStr("production")}

\* Python truthiness of an Optional[str], and `a or b`.
Truthy(x) == x # None /\ x # PyStr("")
Or(a, b) == IF Truthy(a) THEN a ELSE b

\* os.environ.get(name, default): None in the environment stands for unset.
EnvironGet(value, default) == IF value = None THEN default ELSE value

KeyArgs == {None, PyStr(""), PyStr("k")}
EnvArgs == {None, PyStr("test"), PyStr("production"), PyStr("staging")}
EnvironKeys == {None, PyStr("ek")}
EnvironEnvs == {None, PyStr(""), PyStr("production"), PyStr("staging")}

\* The attributes lines 42-44 of auth.py compute.
Resolved(o) ==
    [api_key |-> Or(o.api_key, EnvironGet(o.AMADEUS_API_KEY, None)),
     api_secret |-> Or(o.api_secret, EnvironGet(o.AMADEUS_API_SECRET, None)),
     env |-> Or(o.env, EnvironGet(o.AMADEUS_ENV, PyStr("test")))]

\* What AmadeusAuth.__init__ raises, None when it returns.
ConstructionError(self) ==
    IF ~Truthy(self.api_key) \/ ~Truthy(self.api_secret) THEN AuthError
    ELSE IF self.env \notin TOKEN_URLS THEN AuthError
    ELSE None

ConstructInit ==
    /\ now = StartTime
    /\ cache_ttl \in {0, DefaultTtl}
    /\ token = None
    /\ token_expiry = 0
    /\ cache = <<>>
    /\ pc = [c \in Callers |-> "unbuilt"]
    /\ req = [c \in Callers |-> NoRequest]
    /\ loc = [c \in Callers |-> NoLocals]
    /\ result = [c \in Callers |-> Pending]
    /\ hist = [c \in Callers |-> <<>>]
    /\ prev = [c \in Callers |-> NoPrev]
    /\ ncalls = 0
    /\ op \in [name : {"construct"}, api_key : KeyArgs, api_secret : KeyArgs,
               env : EnvArgs, AMADEUS_API_KEY : EnvironKeys,
               AMADEUS_API_SECRET : EnvironKeys, AMADEUS_ENV : EnvironEnvs]

\* AmadeusClient.__init__
Construct ==
    /\ \A c \in Callers : pc[c] = "unbuilt"
    /\ LET e == ConstructionError(Resolved(op)) IN
        IF e = None
        THEN /\ pc' = [c \in Callers |-> "idle"]
             /\ result' = result
        ELSE /\ pc' = [c \in Callers |-> "failed"]
             /\ result' = [c \in Callers |-> e]
    /\ token' = None
    /\ token_expiry' = 0
    /\ UNCHANGED <<now, cache_ttl, cache, req, loc, hist, prev, op, ncalls>>

ConstructNext ==
    \/ Construct
    \/ Call(1, ConcRequests)
    \/ GetToken(1)

ConstructSpec == ConstructInit /\ [][ConstructNext]_vars

(***************************************************************************)
(* Object identity: a parsed body is a mutable object (a dict).  The heap  *)
(* maps an object to its present content; the cache and the callers hold   *)
(* references.  op.objs is the heap, op.cached the content each object had *)
(* when it was put into the cache.                                         *)
(***************************************************************************)
Ref(i) == [kind |-> "ref", id |-> i]
Contents == {1, 2}

\* `return cached` (client.py line 99), `return data` (line 162) and
\* `return value` (cache.py line 72) hand out the object itself.
Returned(ref) == ref

HeapInit ==
    /\ now = StartTime
    /\ cache_ttl = DefaultTtl
    /\ token = None
    /\ token_expiry = 0
    /\ cache = <<>>
    /\ pc = [c \in Callers |-> "idle"]
    /\ req = [c \in Callers |-> NoRequest]
    /\ loc = [c \in Callers |-> NoLocals]
    /\ result = [c \in Callers |-> Pending]
    /\ hist = [c \in Callers |-> <<>>]
    /\ prev = [c \in Callers |-> NoPrev]
    /\ ncalls = 0
    /\ op = [name |-> "heap", objs |-> <<>>, cached |-> <<>>]

\* A cacheable GET that is served from the cache (client.py lines 94-99).
ExecuteHit(c, key) ==
    /\ LET got == CacheGet(cache, key, now) IN
        /\ got.ret # None
        /\ cache' = got.cache
        /\ result' = [result EXCEPT ![c] = Success(Returned(got.ret))]
        /\ hist' = [hist EXCEPT ![c] = <<"cache_hit">>]
    /\ pc' = [pc EXCEPT ![c] = "done"]
    /\ UNCHANGED <<now, cache_ttl, token, token_expiry, req, loc, prev, op, ncalls>>

\* A cacheable GET that misses and succeeds: response.json() builds a new
\* object, which is put into the cache and returned (client.py lines 151-162).
ExecuteMiss(c, key, content) ==
    /\ Len(op.objs) < MaxObjects
    /\ LET got == CacheGet(cache, key, now)
           data == Ref(Len(op.objs) + 1)
       IN /\ got.ret = None
          /\ cache' = CacheSet(got.cache, key, data, None, now, MaxEntries, cache_ttl)
          /\ result' = [result EXCEPT ![c] = Success(Returned(data))]
    /\ op' = [op EXCEPT !.objs = Append(@, content), !.cached = Append(@, content)]
    /\ hist' = [hist EXCEPT ![c] = <<"cache_miss", "transport", "cache_set">>]
    /\ pc' = [pc EXCEPT ![c] = "done"]
    /\ UNCHANGED <<now, cache_ttl, token, token_expiry, req, loc, prev, ncalls>>

\* The caller changes the result it was given, e.g. result['data'].append(...).
Mutate(c, content) ==
    /\ pc[c] = "done"
    /\ result[c].kind = "Success"
    /\ op' = [op EXCEPT !.objs[result[c].value.id] = content]
    /\ UNCHANGED <<now, cache_ttl, token, token_expiry, cache, pc, req, loc, result, hist,
                   prev, ncalls>>

HeapNext ==
    \/ \E c \in Callers, key \in CacheKeys : ExecuteHit(c, key)
    \/ \E c \in Callers, key \in CacheKeys, content \in Contents : ExecuteMiss(c, key, content)
    \/ \E c \in Callers, content \in Contents : Mutate(c, content)
    \/ Tick

HeapSpec == HeapInit /\ [][HeapNext]_vars

(***************************************************************************)
(* Several callers on one AmadeusAuth, get_token and invalidate called     *)
(* directly and interleaved statement by statement: the class takes no     *)
(* lock.  op.installed is the set of tokens a successful refresh stored.   *)
(***************************************************************************)
SharedTokenReplies == {[kind |-> "token_denied"], TokenOk(PyStr("t1"), None),
                       TokenOk(PyStr("t1"), PyInt(62)),
                       [kind |-> "token_bad_expires_in", access_token |-> PyStr("t2")]}

SharedTokenInit ==
    /\ now = StartTime
    /\ cache_ttl = 0
    /\ token = None
    /\ token_expiry = 0
    /\ cache = <<>>
    /\ pc = [c \in Callers |-> "idle"]
    /\ req = [c \in Callers |-> NoRequest]
    /\ loc = [c \in Callers |-> NoLocals]
    /\ result = [c \in Callers |-> Pending]
    /\ hist = [c \in Callers |-> <<>>]
    /\ prev = [c \in Callers |-> NoPrev]
    /\ ncalls = 0
    /\ op = [name |-> "tokens", installed |-> {}]

StartTokenOp(c, name, label) ==
    /\ pc[c] \in {"idle", "done"}
    /\ ncalls < MaxCalls
    /\ ncalls' = ncalls + 1
    /\ req' = [req EXCEPT ![c] = [name |-> name]]
    /\ pc' = [pc EXCEPT ![c] = label]
    /\ result' = [result EXCEPT ![c] = Pending]

\* _is_token_valid, line 72: `if not self._token: return False`
TestToken(c) ==
    /\ StartTokenOp(c, "get_token", IF token = None THEN "tk_refresh" ELSE "tk_test_expiry")
    /\ UNCHANGED <<now, cache_ttl, token, token_expiry, cache, loc, hist, prev, op>>

\* _is_token_valid, line 74: `return time.time() < (self._token_expiry - 60)`
TestExpiry(c) ==
    /\ pc[c] = "tk_test_expiry"
    /\ pc' = [pc EXCEPT ![c] = IF now < token_expiry - Skew THEN "tk_return" ELSE "tk_refresh"]
    /\ UNCHANGED <<now, cache_ttl, token, token_expiry, cache, req, loc, result, hist, prev,
                   op, ncalls>>

\* _refresh_token up to line 111: the reply arrives, `self._token = data['access_token']`
RefreshWriteToken(c, replies) ==
    /\ pc[c] = "tk_refresh"
    /\ \E reply \in replies :
        IF reply.kind \in {"token_ok", "token_bad_expires_in"}
        THEN /\ token' = reply.access_token
             /\ loc' = [loc EXCEPT ![c] = reply]
             /\ pc' = [pc EXCEPT ![c] = "tk_write_expiry"]
             /\ result' = result
        ELSE /\ \E e \in RefreshError(reply.kind) : result' = [result EXCEPT ![c] = e]
             /\ pc' = [pc EXCEPT ![c] = "done"]
             /\ UNCHANGED <<token, loc>>
    /\ UNCHANGED <<now, cache_ttl, token_expiry, cache, req, hist, prev, op, ncalls>>

\* _refresh_token, line 113: `self._token_expiry = time.time() + data.get('expires_in', 1799)`
RefreshWriteExpiry(c) ==
    /\ pc[c] = "tk_write_expiry"
    /\ IF loc[c].kind = "token_ok"
       THEN /\ token_expiry' = now + ExpiresInOf(loc[c])
            /\ op' = [op EXCEPT !.installed = @ \cup {loc[c].access_token}]
            /\ pc' = [pc EXCEPT ![c] = "tk_return"]
            /\ result' = result
       ELSE /\ \E e \in RefreshError(loc[c].kind) : result' = [result EXCEPT ![c] = e]
            /\ pc' = [pc EXCEPT ![c] = "done"]
            /\ UNCHANGED <<token_expiry, op>>
    /\ UNCHANGED <<now, cache_ttl, token, cache, req, loc, hist, prev, ncalls>>

\* get_token, line 132: `return self._token`
ReturnToken(c) ==
    /\ pc[c] = "tk_return"
    /\ pc' = [pc EXCEPT ![c] = "done"]
    /\ result' = [result EXCEPT ![c] = Success(token)]
    /\ UNCHANGED <<now, cache_ttl, token, token_expiry, cache, req, loc, hist, prev, op,
                   ncalls>>

\* invalidate, line 147: `self._token = None`
InvalidateToken(c) ==
    /\ StartTokenOp(c, "invalidate", "inv_expiry")
    /\ token' = Invalidated.token
    /\ UNCHANGED <<now, cache_ttl, token_expiry, cache, loc, hist, prev, op>>

\* invalidate, line 148: `self._token_expiry = 0`
InvalidateExpiry(c) ==
    /\ pc[c] = "inv_expiry"
    /\ token_expiry' = Invalidated.token_expiry
    /\ pc' = [pc EXCEPT ![c] = "done"]
    /\ result' = [result EXCEPT ![c] = Success(None)]
    /\ UNCHANGED <<now, cache_ttl, token, cache, req, loc, hist, prev, op, ncalls>>

SharedTokenNext ==
    \/ \E c \in Callers : TestToken(c)
    \/ \E c \in Callers : TestExpiry(c)
    \/ \E c \in Callers : RefreshWriteToken(c, SharedTokenReplies)
    \/ \E c \in Callers : RefreshWriteExpiry(c)
    \/ \E c \in Callers : ReturnToken(c)
    \/ \E c \in Callers : InvalidateToken(c)
    \/ \E c \in Callers : InvalidateExpiry(c)
    \/ Tick

SharedTokenSpec == SharedTokenInit /\ [][SharedTokenNext]_vars

(***************************************************************************)
(* make_key on its own: a static method applied to an endpoint and two     *)
(* parameter maps.                                                         *)
(***************************************************************************)
ParamNames == 1..3
ParamValues == {7, 8}
KeyEndpoints == {"/a", "/b"}

\* dicts: the names of a map are distinct; the sequence is the insertion order.
ParamSeqs ==
    {s \in UNION {[1..n -> ParamNames \X ParamValues] : n \in 0..MaxParams} :
        \A i \in 1..Len(s) : \A j \in 1..Len(s) : s[i][1] = s[j][1] => i = j}
ParamMaps == {None} \cup {PyDict(s) : s \in ParamSeqs}

KeyInit ==
    /\ now = StartTime
    /\ cache_ttl = DefaultTtl
    /\ token = None
    /\ token_expiry = 0
    /\ cache = <<>>
    /\ pc = [c \in Callers |-> "idle"]
    /\ req = [c \in Callers |-> NoRequest]
    /\ loc = [c \in Callers |-> NoLocals]
    /\ result = [c \in Callers |-> Pending]
    /\ hist = [c \in Callers |-> <<>>]
    /\ prev = [c \in Callers |-> NoPrev]
    /\ ncalls = 0
    /\ op \in [name : {"make_key"}, endpoint : KeyEndpoints,
               args : ParamMaps \X ParamMaps, keys : {<<Pending, Pending>>}]

\* ResponseCache.make_key(endpoint, args[i])
MakeKey(i) ==
    /\ op.name = "make_key"
    /\ op.keys[i] = Pending
    /\ op' = [op EXCEPT !.keys[i] = make_key(op.endpoint, op.args[i])]
    /\ UNCHANGED <<now, cache_ttl, token, token_expiry, cache, pc, req, loc, result, hist,
                   prev, ncalls>>

KeyNext == \E i \in 1..2 : MakeKey(i)

KeySpec == KeyInit /\ [][KeyNext]_vars

(***************************************************************************)
(* Per-call measures read off a caller's state.                            *)
(***************************************************************************)
RECURSIVE Count(_, _)
Count(seq, e) ==
    IF seq = <<>> THEN 0
    ELSE (IF Head(seq) = e THEN 1 ELSE 0) + Count(Tail(seq), e)

Done(c) == pc[c] = "done"
TransportCalls(c) == Len(loc[c].resps)
Invalidations(c) == Count(hist[c], "invalidate")
Last(seq) == seq[Len(seq)]
IsHttp(resp, status) == resp.kind = "http" /\ resp.status = status
KeyOf(c) == make_key(req[c].endpoint, req[c].params)

(***************************************************************************)
(* C1: when the first reply of a call is a 401 and the reply to the retry  *)
(* is a success with a JSON body, the call returns that parsed body and    *)
(* invalidate() ran exactly once during the call.                          *)
(***************************************************************************)
C1_Precondition(c) ==
    /\ Done(c)
    /\ TransportCalls(c) = 2
    /\ IsHttp(loc[c].resps[1], StatusUnauthorized)
    /\ loc[c].resps[2].kind = "http"
    /\ loc[c].resps[2].status < StatusErrorFloor
    /\ loc[c].resps[2].body \in JsonValues

C1_RetrySucceeds ==
    \A c \in Callers :
        C1_Precondition(c) =>
            /\ result[c] = Success(loc[c].resps[2].body)
            /\ Invalidations(c) = 1

C1_Witness ==
    \E c \in Callers : C1_Precondition(c) /\ result[c].kind = "Success"

(***************************************************************************)
(* C2: when the first attempt and the retry both receive a 401, the error  *)
(* the caller gets is an AuthFailure (AuthError), not an APIError.         *)
(***************************************************************************)
C2_Precondition(c) ==
    /\ Done(c)
    /\ TransportCalls(c) = 2
    /\ IsHttp(loc[c].resps[1], StatusUnauthorized)
    /\ IsHttp(loc[c].resps[2], StatusUnauthorized)

C2_DoubleUnauthorizedIsAuthFailure ==
    \A c \in Callers : C2_Precondition(c) => result[c].kind = "AuthError"

IsNetworkFailure(resp) ==
    \/ resp.kind = "exc"
    \/ resp.kind = "http" /\ resp.status < StatusErrorFloor /\ resp.body = Undecodable

C4_TransportFailureIsDistinct ==
    \A c \in Callers :
        (TransportCalls(c) >= 1 /\ IsNetworkFailure(Last(loc[c].resps))) =>
            /\ Done(c)
            /\ result[c].kind \notin {"APIError", "AuthError", "Success"}

(***************************************************************************)
(* C5 as stated: a first reply with an error status other than 401 ends    *)
(* the call with an APIError carrying the status and the body's errors,    *)
(* after exactly one transport call, with no invalidate() and with the     *)
(* stored Credential never written by the call.                            *)
(***************************************************************************)
C5_Precondition(c) ==
    /\ TransportCalls(c) >= 1
    /\ loc[c].resps[1].kind = "http"
    /\ loc[c].resps[1].status >= StatusErrorFloor
    /\ loc[c].resps[1].status # StatusUnauthorized

C5_ErrorResult(c) ==
    LET r == loc[c].resps[1] IN
    /\ Done(c)
    /\ result[c].kind = "APIError"
    /\ result[c].status_code = PyInt(r.status)
    /\ result[c].errors = (IF r.body.kind = "object" THEN r.body.errors ELSE <<>>)
    /\ TransportCalls(c) = 1
    /\ Invalidations(c) = 0

CredentialWrites == {"token_written", "expiry_written", "invalidate"}

C6_RefreshFailed(c) ==
    /\ hist[c] # <<>>
    /\ Last(hist[c]) \in {"token_denied", "token_exc"}

C6_RefreshFailureSurfaces ==
    \A c \in Callers :
        C6_RefreshFailed(c) =>
            /\ Done(c)
            /\ result[c] = AuthError
            /\ TransportCalls(c) = loc[c].attempt - 1

C6_Witness ==
    \E c \in Callers :
        /\ C6_RefreshFailed(c)
        /\ Last(hist[c]) = "token_exc"
        /\ loc[c].attempt = 2
        /\ TransportCalls(c) = 1

(***************************************************************************)
(* C7: a cacheable GET whose cache check finds a valid entry (now <        *)
(* expiry) under its fingerprint returns that entry's value at once: no    *)
(* transport call, no get_token(), no write of the stored Credential.      *)
(***************************************************************************)
FoundValid(c) ==
    /\ pc[c] # "idle"
    /\ UsesCache(req[c].method, req[c].use_cache)
    /\ loc[c].seen.present
    /\ loc[c].seen.at < loc[c].seen.expiry

C7_HitReturnsImmediately ==
    \A c \in Callers :
        FoundValid(c) =>
            /\ Done(c)
            /\ result[c] = Success(loc[c].seen.value)
            /\ TransportCalls(c) = 0
            /\ hist[c] = <<"cache_hit">>

(***************************************************************************)
(* C8: after a cacheable GET that succeeded with one transport call, the   *)
(* same GET (same path, equal parameters) issued while the entry is still  *)
(* there and within its TTL makes no transport call of its own and returns *)
(* the same result, whatever JSON value that result is.                    *)
(***************************************************************************)
C8_Precondition(c) ==
    /\ Done(c)
    /\ prev[c].kind = "cached_get"
    /\ prev[c].transports = 1
    /\ FoundValid(c)
    /\ KeyOf(c) = prev[c].key

C8_SecondCallServedFromCache ==
    \A c \in Callers :
        C8_Precondition(c) =>
            /\ TransportCalls(c) = 0
            /\ result[c] = Success(prev[c].value)

(***************************************************************************)
(* C9: no step of a call whose method is POST, or that is marked           *)
(* non-cacheable, changes the cache (entries, values, expiry and           *)
(* last-access instants), whatever the call's outcome and also when the    *)
(* cache holds an entry under the same path and parameters.                *)
(***************************************************************************)
StepOf(c) == pc'[c] # pc[c] \/ hist'[c] # hist[c] \/ req'[c] # req[c]

C9_NonCacheableLeavesCache ==
    [][\A c \in Callers :
          (StepOf(c) /\ (req'[c].method = "POST" \/ ~req'[c].use_cache)) => cache' = cache]_vars

C9_Witness ==
    \E c \in Callers :
        /\ Done(c)
        /\ result[c].kind = "Success"
        /\ req[c].method = "POST"
        /\ req[c].use_cache
        /\ TransportCalls(c) = 1
        /\ Contains(cache, KeyOf(c))

(***************************************************************************)
(* C10: get(key) returns the stored value exactly when the key is present  *)
(* and now < expiry; otherwise it returns a miss (None), and a present     *)
(* entry with now >= expiry is removed.                                    *)
(***************************************************************************)
C10_GetValidity ==
    op.name = "get" =>
        LET i == Index(op.before, op.key) IN
        IF i # 0 /\ op.at < op.before[i].expiry
        THEN /\ op.ret = op.before[i].value
             /\ Contains(op.after, op.key)
        ELSE /\ op.ret = None
             /\ ~Contains(op.after, op.key)

(***************************************************************************)
(* C11 as stated: a set of a new key into a map that holds N entries (the  *)
(* N+1st distinct key, N the capacity) leaves exactly N entries, and every *)
(* key touched by a get after all untouched keys were last accessed is     *)
(* still present afterwards.                                               *)
(***************************************************************************)
KeysOf(c) == {c[i].key : i \in 1..Len(c)}

C11_Precondition ==
    /\ op.name = "set"
    /\ ~Contains(op.before, op.key)
    /\ Len(op.before) = MaxEntries

\* The longest run of keys at the recent end of the access order that were all
\* last accessed by a get, leaving at least one key out.
RECURSIVE TouchedAfterOthers(_)
TouchedAfterOthers(l) ==
    IF Len(l) <= 1 THEN {}
    ELSE IF \A i \in 2..Len(l) : l[i].by = "get" THEN {l[i].key : i \in 2..Len(l)}
    ELSE TouchedAfterOthers(Tail(l))

C12_NeverAboveCapacity == Len(cache) <= MaxEntries

C12_Witness ==
    /\ Len(cache) = MaxEntries
    /\ op.name = "set"
    /\ op.after = cache
    /\ Len(op.before) = MaxEntries
    /\ ~Contains(op.before, op.key)

(***************************************************************************)
(* C13: for every endpoint and all parameter maps P1, P2 holding the same  *)
(* key-value pairs, make_key gives the same fingerprint whatever the order *)
(* the pairs were inserted in.                                             *)
(***************************************************************************)
PairsOf(params) == {ParamsOrEmpty(params)[i] : i \in 1..Len(ParamsOrEmpty(params))}

C13_BothKeysMade ==
    /\ op.name = "make_key"
    /\ op.keys[1] # Pending
    /\ op.keys[2] # Pending

C13_OrderIndependent ==
    (C13_BothKeysMade /\ PairsOf(op.args[1]) = PairsOf(op.args[2])) =>
        op.keys[1] = op.keys[2]

C13_Witness ==
    /\ C13_BothKeysMade
    /\ PairsOf(op.args[1]) = PairsOf(op.args[2])
    /\ op.args[1] # op.args[2]
    /\ op.args[1] # None
    /\ Len(op.args[1].items) >= 2
    /\ op.args[1].items[1][1] > op.args[1].items[2][1]
    /\ op.keys[1] = op.keys[2]

(***************************************************************************)
(* C14: every token get_token() returns satisfies now < expiry - 60 at the *)
(* moment it is returned, also when the same call has just installed it by *)
(* a refresh, whatever seconds-to-expiry the token endpoint declared.      *)
(***************************************************************************)
GetTokenReturns(c) == pc[c] \in {"get_token", "refresh"} /\ pc'[c] = "request"

C14_ReturnedTokenIsValid ==
    [][\A c \in Callers :
          GetTokenReturns(c) =>
              /\ loc'[c].bearer # None
              /\ loc'[c].bearer = token'
              /\ now' < token_expiry' - Skew]_vars

(***************************************************************************)
(* C15: when the stored token is present and now < expiry - 60,            *)
(* get_token() returns the stored token without contacting the token       *)
(* endpoint and leaves token and expiry unchanged; two consecutive calls   *)
(* in that window get the same string with no second network call.         *)
(***************************************************************************)
GetTokenRuns(c) == pc[c] = "get_token" /\ pc'[c] # "get_token"

C15_ValidTokenIsReused ==
    [][\A c \in Callers :
          (GetTokenRuns(c) /\ token # None /\ now < token_expiry - Skew) =>
              /\ pc'[c] = "request"
              /\ loc'[c].bearer = token
              /\ token' = token
              /\ token_expiry' = token_expiry
              /\ Count(hist'[c], "refresh_sent") = Count(hist[c], "refresh_sent")]_vars

C15_Witness ==
    \E c \in Callers :
        /\ pc[c] = "request"
        /\ ncalls = 2
        /\ hist[c] = <<"token_valid">>
        /\ TransportCalls(c) = 0
        /\ loc[c].bearer = token
        /\ token # None
        /\ now < token_expiry - Skew

(***************************************************************************)
(* C16: invalidate() sets the Credential to absent with an expiry in the   *)
(* past whatever it was before, and the first get_token() after it makes   *)
(* exactly one refresh call before returning, even if the discarded        *)
(* Credential was still valid.                                             *)
(***************************************************************************)
InvalidateRuns ==
    \/ \E c \in Callers : hist'[c] = hist[c] \o <<"transport", "invalidate">>
    \/ /\ op'.name = "invalidate"
       /\ <<now, cache, pc, hist, ncalls>>' = <<now, cache, pc, hist, ncalls>>

C16_InvalidateForcesOneRefresh ==
    [][/\ InvalidateRuns =>
            /\ token' = None
            /\ token_expiry' < now'
            /\ token_expiry' = 0
       /\ \A c \in Callers :
            (GetTokenRuns(c) /\ token = None /\ token_expiry = 0) =>
                /\ pc'[c] = "refresh"
                /\ hist'[c] = Append(hist[c], "refresh_sent")
       /\ \A c \in Callers :
            (pc[c] = "refresh" /\ pc'[c] # "refresh") =>
                /\ Count(hist'[c], "refresh_sent") = Count(hist[c], "refresh_sent")
                /\ pc'[c] = "request" => loc'[c].bearer = token']_vars

C16_Witness ==
    \E c \in Callers :
        /\ pc[c] = "request"
        /\ loc[c].attempt = 2
        /\ Invalidations(c) = 1
        /\ Count(hist[c], "token_valid") = 1
        /\ Count(hist[c], "refresh_sent") = 1
        /\ loc[c].bearer = token
        /\ op.name = "invalidate"
        /\ op.absent

(***************************************************************************)
(* C17: a refresh that fails, for any reason (status, transport, or a      *)
(* success body without a usable access token or expiry value), leaves the *)
(* stored token and expiry exactly as they were; only a successful refresh *)
(* overwrites the Credential, token and expiry together.                   *)
(***************************************************************************)
RefreshFails(c) == pc[c] = "refresh" /\ pc'[c] = "done"
RefreshSucceeds(c) == pc[c] = "refresh" /\ pc'[c] = "request"

C17_FailedRefreshLeavesCredential ==
    [][\A c \in Callers :
          /\ RefreshFails(c) => (token' = token /\ token_expiry' = token_expiry)
          /\ RefreshSucceeds(c) => (token' # None /\ token_expiry' > now')]_vars

(***************************************************************************)
(* C18: with several callers on one token store at most one refresh is in  *)
(* flight at any time: two callers that both find the Credential invalid   *)
(* do not both contact the token endpoint at the same time.                *)
(***************************************************************************)
RefreshesInFlight == {c \in Callers : pc[c] = "refresh"}

C18_OneRefreshInFlight == Cardinality(RefreshesInFlight) <= 1

(***************************************************************************)
(* C19: with several callers on one ResponseCache each get/set/evict       *)
(* sequence is atomic: a get's last-access write-back never restores an    *)
(* older value or expiry, one insertion never evicts two entries nor takes *)
(* the count above capacity, and no operation fails because another caller *)
(* removed the entry it was reading.                                       *)
(***************************************************************************)
WritesBack(c) == pc[c] = "get_finish" /\ ~IsExpired(now, loc[c].expiry)

C19_OperationsAreAtomic ==
    [][/\ \A c \in Callers :
            WritesBack(c) =>
                /\ Contains(cache, req[c].key)
                /\ cache[Index(cache, req[c].key)].value = loc[c].value
                /\ cache[Index(cache, req[c].key)].expiry = loc[c].expiry
       /\ \A c \in Callers :
            (pc[c] = "set_assign" /\ pc'[c] = "done" /\ loc[c].full /\ loc[c].new) =>
                Len(cache') = MaxEntries
       /\ Len(cache') <= MaxEntries
       /\ \A c \in Callers : result'[c] # KeyError]_vars

(***************************************************************************)
(* C20: constructing the token store with a missing identity, a missing    *)
(* secret or an environment other than the two fixed ones fails at         *)
(* construction, before any network call, with a ConfigurationError, a     *)
(* kind distinct from AuthFailure, APIError and TransportFailure.          *)
(***************************************************************************)
Misconfigured ==
    \/ ~Truthy(Resolved(op).api_key)
    \/ ~Truthy(Resolved(op).api_secret)
    \/ Resolved(op).env \notin {PyStr("test"), PyStr("production")}

C20_ConfigurationErrorAtConstruction ==
    (op.name = "construct" /\ Misconfigured /\ pc[1] # "unbuilt") =>
        /\ pc[1] = "failed"
        /\ hist[1] = <<>>
        /\ result[1].kind \notin {"AuthError", "APIError", "TransportFailure", "Pending",
                                  "Success"}

(***************************************************************************)
(* C21: with default cache TTL 0 caching is disabled entirely: no call     *)
(* reads or writes a cache, and every cacheable GET makes a transport      *)
(* call, repeated identical ones included.                                 *)
(***************************************************************************)
CallStarts(c) == pc[c] \in {"idle", "done"} /\ pc'[c] # "idle" /\ ncalls' = ncalls + 1

C21_NoCachingAtTtlZero ==
    [][cache_ttl = 0 =>
          /\ cache = <<>>
          /\ cache' = <<>>
          /\ \A c \in Callers :
                /\ CallStarts(c) => (pc'[c] = "get_token" /\ hist'[c] = <<>>)
                /\ (StepOf(c) /\ pc'[c] = "done" /\ result'[c].kind = "Success") =>
                        /\ Len(loc'[c].resps) >= 1
                        /\ Last(hist'[c]) = "transport"]_vars

C21_Witness ==
    \E c \in Callers :
        /\ cache_ttl = 0
        /\ ncalls = 2
        /\ Done(c)
        /\ result[c].kind = "Success"
        /\ req[c].method = "GET"
        /\ req[c].use_cache
        /\ TransportCalls(c) = 1
        /\ hist[c] = <<"token_valid", "transport">>

(***************************************************************************)
(* C22: callers never hold a reference into the cache's entry map: what a  *)
(* call or get returns is a copy, so a caller that mutates a returned      *)
(* result does not change what a later cache hit for the same fingerprint  *)
(* returns.                                                                *)
(***************************************************************************)
C22_CallersHoldCopies ==
    op.name = "heap" =>
        \A i \in 1..Len(cache) : op.objs[cache[i].value.id] = op.cached[cache[i].value.id]

(***************************************************************************)
(* C23: with callers running get_token(), refresh and invalidate()         *)
(* concurrently on one token store, get_token() never returns an absent    *)
(* (None) or torn credential: what it returns is the token string of a     *)
(* Credential that a successful refresh installed.                         *)
(***************************************************************************)
C23_ReturnedTokenIsInstalled ==
    op.name = "tokens" =>
        \A c \in Callers :
            (Done(c) /\ req[c].name = "get_token" /\ result[c].kind = "Success") =>
                /\ result[c].value # None
                /\ result[c].value \in op.installed

(***************************************************************************)
(* C24: a Credential is invalidated only when a call that presented that   *)
(* very Credential received an authorization failure: with callers sharing *)
(* one token store, a caller's invalidate() after its 401 never discards a *)
(* newer Credential that another caller's refresh installed meanwhile.     *)
(***************************************************************************)
InvalidatesAfter401(c) == hist'[c] = hist[c] \o <<"transport", "invalidate">>

C24_InvalidatesOnlyPresented ==
    [][\A c \in Callers :
          InvalidatesAfter401(c) => (token = None \/ token = loc[c].bearer)]_vars

(***************************************************************************)
(* C25: within one call by a single caller the second attempt is issued    *)
(* only after the first reply was received and found to be a 401 and after *)
(* invalidate() ran, and the token it carries comes from a refresh made    *)
(* after that failure; the call runs invalidate() in no other situation.   *)
(***************************************************************************)
RefreshedAfterInvalidate == <<"transport", "invalidate", "refresh_sent", "token_ok",
                              "token_written", "expiry_written">>

EndsWith(seq, tail) ==
    /\ Len(seq) >= Len(tail)
    /\ SubSeq(seq, Len(seq) - Len(tail) + 1, Len(seq)) = tail

C25_RetryAfterInvalidateAndRefresh ==
    \A c \in Callers :
        /\ \A i \in 1..Len(hist[c]) :
              hist[c][i] = "invalidate" =>
                  /\ i > 1
                  /\ hist[c][i - 1] = "transport"
                  /\ Count(SubSeq(hist[c], 1, i), "transport") = 1
                  /\ IsHttp(loc[c].resps[1], StatusUnauthorized)
        /\ (pc[c] = "request" /\ loc[c].attempt = 2) =>
              /\ EndsWith(hist[c], RefreshedAfterInvalidate)
              /\ Count(hist[c], "transport") = 1
              /\ loc[c].bearer = token
              /\ loc[c].bearer # None
        /\ TransportCalls(c) = 2 =>
              /\ Invalidations(c) = 1
              /\ \E i \in 1..(Len(hist[c]) - 6) :
                    /\ SubSeq(hist[c], i, i + 5) = RefreshedAfterInvalidate
                    /\ hist[c][i + 6] = "transport"

C25_Witness ==
    \E c \in Callers :
        /\ TransportCalls(c) = 2
        /\ Done(c)
        /\ ncalls = 2
        /\ Count(hist[c], "token_valid") = 1
        /\ Count(hist[c], "token_ok") = 1
        /\ result[c].kind = "Success"
        /\ IsHttp(loc[c].resps[1], StatusUnauthorized)

(***************************************************************************)
(* C26: when a cacheable GET succeeds, on the first attempt or on the      *)
(* retry after a 401, the parsed value is stored under the request's       *)
(* fingerprint with expiry = now + default TTL before the call returns:    *)
(* right after the call the cache holds a valid entry for that fingerprint *)
(* with that value.                                                        *)
(***************************************************************************)
CacheableGet(c) == req[c].method = "GET" /\ req[c].use_cache /\ cache_ttl > 0

SucceedsByTransport(c) ==
    /\ pc[c] = "request"
    /\ pc'[c] = "done"
    /\ result'[c].kind = "Success"

C26_SuccessIsStored ==
    [][\A c \in Callers :
          (SucceedsByTransport(c) /\ CacheableGet(c)) =>
              /\ Contains(cache', KeyOf(c))
              /\ LET e == cache'[Index(cache', KeyOf(c))] IN
                    /\ e.value = result'[c].value
                    /\ e.value = Last(loc'[c].resps).body
                    /\ e.expiry = now + cache_ttl
                    /\ now' < e.expiry
                    /\ e.access = now]_vars

C26_Witness ==
    \E c \in Callers :
        /\ Done(c)
        /\ CacheableGet(c)
        /\ result[c].kind = "Success"
        /\ TransportCalls(c) = 2
        /\ Last(hist[c]) = "cache_set"
        /\ Contains(cache, KeyOf(c))
        /\ cache[Index(cache, KeyOf(c))].value = result[c].value
        /\ Len(cache) = 2

(***************************************************************************)
(* C27: a cache hit updates only the entry's last-access instant and       *)
(* leaves its value and expiry unchanged, so hits never extend an entry's  *)
(* life: every value served from the cache was stored by a set at most TTL *)
(* time-units earlier, however often it was read in between.               *)
(***************************************************************************)
IsHit == op.name = "get" /\ Contains(op.before, op.key) /\ Contains(op.after, op.key)

C27_HitTouchesOnlyAccess ==
    IsHit =>
        LET i == Index(op.before, op.key) IN
        /\ op.after = [op.before EXCEPT ![i] = [key |-> op.key, value |-> op.before[i].value,
                                                 expiry |-> op.before[i].expiry,
                                                 access |-> op.at]]
        /\ op.ret = op.before[i].value
        /\ \E b \in op.born :
              /\ b.key = op.key
              /\ op.before[i].expiry = b.at + b.ttl
              /\ op.at - b.at <= b.ttl

C27_Witness ==
    /\ IsHit
    /\ op.lru_before # <<>>
    /\ Last(op.lru_before) = [key |-> op.key, by |-> "get"]
    /\ \E b \in op.born : b.key = op.key /\ b.ttl > 0 /\ op.at = b.at + b.ttl
    /\ \E i \in 1..Len(op.before) : op.before[i].key = op.key /\ op.before[i].access < op.at

(***************************************************************************)
(* C28: stats() changes nothing in the cache (no entry removed, no         *)
(* last-access instant touched, expired entries stay) and reports          *)
(* total_entries = size of the map, valid_entries = number of entries with *)
(* now < expiry, expired_entries = total - valid, and the capacity.        *)
(***************************************************************************)
StatsRuns == op'.name = "stats" /\ op' # op

C28_StatsIsPureRead ==
    [][StatsRuns =>
          LET valid == Cardinality({i \in 1..Len(cache) : now < cache[i].expiry}) IN
          /\ cache' = cache
          /\ now' = now
          /\ op'.ret.total_entries = Len(cache)
          /\ op'.ret.valid_entries = valid
          /\ op'.ret.expired_entries = Len(cache) - valid
          /\ op'.ret.max_entries = MaxEntries]_vars

C28_Witness ==
    /\ op.name = "stats"
    /\ op.after = cache
    /\ op.ret.total_entries = 2
    /\ op.ret.valid_entries = 1
    /\ op.ret.expired_entries = 1
    /\ \E i \in 1..Len(cache) : cache[i].expiry = op.at

(***************************************************************************)
(* C29: a call that ends in any error never inserts or overwrites a cache  *)
(* entry; the only change it can make to the cache is the lazy removal of  *)
(* an expired entry for its own fingerprint during the cache check.        *)
(***************************************************************************)
RemovesOwnExpired(c) ==
    LET key == make_key(req'[c].endpoint, req'[c].params)
        i == Index(cache, key)
    IN /\ i # 0
       /\ now > cache[i].expiry
       /\ cache' = Remove(cache, i)

\* The steps of a call, from its start, that end in an error keep the cache:
\* a step of a call changes the cache only if the call ends in success with
\* that step or later.
C29_FailedCallKeepsCache ==
    [][\A c \in Callers :
          /\ (StepOf(c) /\ pc'[c] = "done" /\ result'[c].kind # "Success") => cache' = cache
          /\ (StepOf(c) /\ pc'[c] # "done") =>
                (cache' = cache \/ (CallStarts(c) /\ RemovesOwnExpired(c)))]_vars

(***************************************************************************)
(* C30: set(key, value) on a key that is already present replaces only     *)
(* that key's entry: it removes no other key and leaves the entry count    *)
(* unchanged, including when the map is at capacity.                       *)
(***************************************************************************)
SetsPresentKey == op.name = "set" /\ Contains(op.before, op.key)

C30_OverwriteKeepsOtherKeys ==
    SetsPresentKey =>
        /\ KeysOf(op.after) = KeysOf(op.before)
        /\ Len(op.after) = Len(op.before)
        /\ \A i \in 1..Len(op.before) :
              op.before[i].key # op.key => op.before[i] \in {op.after[j] : j \in 1..Len(op.after)}

====
